---- MODULE Spec2Model ----
(***************************************************************************)
(* Model of apps/member-base/tools/app-manager/config_io.py: the tenant    *)
(* id normalizer, the field validators, the tenant and store validators,   *)
(* and the load/save operations on tenants.json and plugins.json.          *)
(*                                                                         *)
(* A Python string is a sequence of one-character strings.  A Python       *)
(* value is a record [t |-> tag, v |-> payload]; a tenant dict is a value  *)
(* of tag "dict" whose payload has one entry per field the code reads,     *)
(* Absent standing for a key the dict does not hold.  A store (an          *)
(* insertion-ordered dict) is a sequence of [key, val] entries with        *)
(* distinct keys, each entry holding its record by value (two keys of the  *)
(* caller's dict never share one dict object).  What a call produces is a  *)
(* record                                                                  *)
(* [raised, ok, err, arg]: raised when an exception leaves the function,   *)
(* otherwise the returned pair, err being the rule of the message and arg  *)
(* the value the message names.                                            *)
(***************************************************************************)
EXTENDS Integers, Sequences, FiniteSets, TLC

VARIABLES
    file,      \* the tenants file on disk
    pfile,     \* the plugins file on disk
    mem,       \* the tenant store the caller holds between load and save
    plugins,   \* the plugin catalog the caller holds
    call,      \* the entry point last called, with its arguments
    ret        \* what that call produced

vars == <<file, pfile, mem, plugins, call, ret>>

----------------------------------------------------------------------------
(* Bounds of the model *)

\* longest string enumerated character by character
MaxLen == 5
\* most tenants the caller's store holds
MaxTenants == 2
\* the largest number of tenants of a map whose keys collide
MaxKeys == 3

----------------------------------------------------------------------------
(* Characters *)

UpperSeq == <<"A","B","C","D","E","F","G","H","I","J","K","L","M",
              "N","O","P","Q","R","S","T","U","V","W","X","Y","Z">>
LowerSeq == <<"a","b","c","d","e","f","g","h","i","j","k","l","m",
              "n","o","p","q","r","s","t","u","v","w","x","y","z">>
Uppers == {UpperSeq[i] : i \in 1..26}
Lowers == {LowerSeq[i] : i \in 1..26}
Digits == {"0","1","2","3","4","5","6","7","8","9"}
Whitespace == {" ", "\t", "\n", "\r", "\f"}

\* str.lower() on one character
LowerChar(c) ==
    IF c \in Uppers THEN LowerSeq[CHOOSE i \in 1..26 : UpperSeq[i] = c] ELSE c

\* str.upper() on one character
UpperChar(c) ==
    IF c \in Lowers THEN UpperSeq[CHOOSE i \in 1..26 : LowerSeq[i] = c] ELSE c

IsAlpha(c) == c \in Uppers \cup Lowers
IsAlnum(c) == IsAlpha(c) \/ c \in Digits

----------------------------------------------------------------------------
(* Strings *)

Lower(s) == [i \in 1..Len(s) |-> LowerChar(s[i])]
Upper(s) == [i \in 1..Len(s) |-> UpperChar(s[i])]

\* s.replace(a, b) for single characters a, b
ReplaceChar(s, a, b) == [i \in 1..Len(s) |-> IF s[i] = a THEN b ELSE s[i]]

\* s.replace(a, '') for a single character a
RemoveChar(s, a) == SelectSeq(s, LAMBDA c : c # a)

\* s.replace('--', '-'): one pass, left to right, over non-overlapping pairs
RECURSIVE ReplaceDoubleDash(_)
ReplaceDoubleDash(s) ==
    IF Len(s) < 2 THEN s
    ELSE IF s[1] = "-" /\ s[2] = "-"
         THEN <<"-">> \o ReplaceDoubleDash(SubSeq(s, 3, Len(s)))
         ELSE <<s[1]>> \o ReplaceDoubleDash(Tail(s))

\* '--' in s
HasDoubleDash(s) == \E i \in 1..(Len(s) - 1) : s[i] = "-" /\ s[i+1] = "-"

\* while '--' in s: s = s.replace('--', '-')
RECURSIVE CollapseDashes(_)
CollapseDashes(s) ==
    IF HasDoubleDash(s) THEN CollapseDashes(ReplaceDoubleDash(s)) ELSE s

\* s.strip(chars) / s.strip(): drop the leading and trailing characters in cs
RECURSIVE LStrip(_, _)
LStrip(s, cs) ==
    IF s # <<>> /\ s[1] \in cs THEN LStrip(Tail(s), cs) ELSE s

RECURSIVE RStrip(_, _)
RStrip(s, cs) ==
    IF s # <<>> /\ s[Len(s)] \in cs THEN RStrip(SubSeq(s, 1, Len(s) - 1), cs) ELSE s

Strip(s, cs) == RStrip(LStrip(s, cs), cs)

\* s.split('.'): the parts between the dots, empty parts kept
RECURSIVE SplitDots(_)
SplitDots(s) ==
    IF \A i \in 1..Len(s) : s[i] # "."
    THEN <<s>>
    ELSE LET d == CHOOSE i \in 1..Len(s) :
                      s[i] = "." /\ \A j \in 1..(i - 1) : s[j] # "."
         IN  <<SubSeq(s, 1, d - 1)>> \o SplitDots(SubSeq(s, d + 1, Len(s)))

\* s.startswith(p)
StartsWith(s, p) == Len(s) >= Len(p) /\ SubSeq(s, 1, Len(p)) = p

\* p in s, for strings
Contains(s, p) ==
    \E i \in 1..(Len(s) - Len(p) + 1) : SubSeq(s, i, i + Len(p) - 1) = p

----------------------------------------------------------------------------
(* Python values *)

Absent == [t |-> "absent", v |-> 0]
None == [t |-> "null", v |-> 0]
Num(n) == [t |-> "num", v |-> n]
Str(s) == [t |-> "str", v |-> s]
List(l) == [t |-> "list", v |-> l]
Dict(d) == [t |-> "dict", v |-> d]

IsStr(x) == x.t = "str"
IsList(x) == x.t = "list"
IsDict(x) == x.t = "dict"

\* bool(x); a .get() of a missing key gives None
Truthy(x) ==
    CASE x.t = "absent" -> FALSE
      [] x.t = "null" -> FALSE
      [] x.t = "num" -> x.v # 0
      [] x.t = "str" -> x.v # <<>>
      [] x.t = "list" -> x.v # <<>>
      [] OTHER -> TRUE

----------------------------------------------------------------------------
(* What a call produces *)

\* out is the data returned beside the error: the normalized string of
\* normalize_tenant_id, the dict of a load; <<>> elsewhere
NoArg == <<>>
Ok == [raised |-> FALSE, ok |-> TRUE, err |-> "", arg |-> NoArg, out |-> <<>>]
OkOut(o) == [raised |-> FALSE, ok |-> TRUE, err |-> "", arg |-> NoArg, out |-> o]
Fail(e) == [raised |-> FALSE, ok |-> FALSE, err |-> e, arg |-> NoArg, out |-> <<>>]
FailArg(e, a) == [raised |-> FALSE, ok |-> FALSE, err |-> e, arg |-> a, out |-> <<>>]
Raise(e) == [raised |-> TRUE, ok |-> FALSE, err |-> e, arg |-> NoArg, out |-> <<>>]
\* no call has returned yet
Pending == [raised |-> FALSE, ok |-> FALSE, err |-> "pending", arg |-> NoArg, out |-> <<>>]

----------------------------------------------------------------------------
(* normalize_tenant_id *)

\* as normalize_tenant_id, the underscores left in place
normalize_keeps_underscores(tenant_id) ==
    IF tenant_id = <<>> THEN tenant_id
    ELSE Strip(CollapseDashes(ReplaceChar(Lower(tenant_id), " ", "-")), {"-"})

normalize_tenant_id(tenant_id) ==
    IF tenant_id = <<>> THEN tenant_id
    ELSE LET lowered == Lower(tenant_id)
             dashed == ReplaceChar(ReplaceChar(lowered, " ", "-"), "_", "-")
             collapsed == CollapseDashes(dashed)
         IN  Strip(collapsed, {"-"})

----------------------------------------------------------------------------
(* Field validators *)

PackageMaxLen == 100
InitialMaxLen == 20
LogoUrlMaxLen == 500
LogoPathMaxLen == 200

\* as PackageParts, the comparison of a part with its lowercase form left out
RECURSIVE PackagePartsAnyCase(_)
PackagePartsAnyCase(parts) ==
    IF parts = <<>> THEN Ok
    ELSE LET part == Head(parts)
         IN  IF part = <<>> THEN Fail("PackageEmptyPart")
             ELSE IF ~IsAlpha(part[1]) THEN Fail("PackageStartLetter")
             ELSE IF \E i \in 1..Len(part) : ~(IsAlnum(part[i]) \/ part[i] = "_")
                  THEN Fail("PackageInvalidChars")
             ELSE PackagePartsAnyCase(Tail(parts))

\* the loop over the parts of a package name: the first part that breaks a
\* rule decides the error, and within a part the rules are tried in order
RECURSIVE PackageParts(_)
PackageParts(parts) ==
    IF parts = <<>> THEN Ok
    ELSE LET part == Head(parts)
         IN  IF part = <<>> THEN Fail("PackageEmptyPart")
             ELSE IF ~IsAlpha(part[1]) THEN Fail("PackageStartLetter")
             ELSE IF \E i \in 1..Len(part) : ~(IsAlnum(part[i]) \/ part[i] = "_")
                  THEN Fail("PackageInvalidChars")
             ELSE IF part # Lower(part) THEN Fail("PackageLowercase")
             ELSE PackageParts(Tail(parts))

validate_package_name(package_name) ==
    IF ~Truthy(package_name) THEN Fail("PackageRequired")
    ELSE IF ~IsStr(package_name) THEN Fail("PackageNotString")
    ELSE LET trimmed == Strip(package_name.v, Whitespace)
         IN  IF Len(trimmed) = 0 THEN Fail("PackageEmpty")
             ELSE IF Len(trimmed) > PackageMaxLen THEN Fail("PackageTooLong")
             ELSE LET parts == SplitDots(trimmed)
                  IN  IF Len(parts) < 2 THEN Fail("PackageParts")
                      ELSE PackageParts(parts)

LogoInvalidChars == <<"<", ">", "|", "?", "*", "\"">>

\* validate_logo_path without line 170: the value is checked as given
validate_logo_path_untrimmed(logo_path) ==
    IF ~Truthy(logo_path) THEN Ok
    ELSE IF ~IsStr(logo_path) THEN Fail("LogoNotString")
    ELSE LET trimmed == logo_path.v
         IN  IF StartsWith(trimmed, <<"h","t","t","p",":","/","/">>)
                \/ StartsWith(trimmed, <<"h","t","t","p","s",":","/","/">>)
             THEN IF Len(trimmed) > LogoUrlMaxLen
                  THEN Fail("LogoUrlTooLong") ELSE Ok
             ELSE IF \E k \in 1..Len(LogoInvalidChars) :
                         \E i \in 1..Len(trimmed) : trimmed[i] = LogoInvalidChars[k]
                  THEN Fail("LogoInvalidChar")
             ELSE IF StartsWith(trimmed, <<"/">>) \/ (Len(trimmed) > 1 /\ trimmed[2] = ":")
                  THEN Fail("LogoAbsolute")
             ELSE IF Len(trimmed) > LogoPathMaxLen THEN Fail("LogoTooLong")
             ELSE Ok

validate_logo_path(logo_path) ==
    IF ~Truthy(logo_path) THEN Ok
    ELSE IF ~IsStr(logo_path) THEN Fail("LogoNotString")
    ELSE LET trimmed == Strip(logo_path.v, Whitespace)
         IN  IF Len(trimmed) = 0 THEN Ok
             ELSE IF StartsWith(trimmed, <<"h","t","t","p",":","/","/">>)
                     \/ StartsWith(trimmed, <<"h","t","t","p","s",":","/","/">>)
                  THEN IF Len(trimmed) > LogoUrlMaxLen
                       THEN Fail("LogoUrlTooLong") ELSE Ok
             ELSE IF \E k \in 1..Len(LogoInvalidChars) :
                         \E i \in 1..Len(trimmed) : trimmed[i] = LogoInvalidChars[k]
                  THEN LET k == CHOOSE k \in 1..Len(LogoInvalidChars) :
                                  /\ \E i \in 1..Len(trimmed) : trimmed[i] = LogoInvalidChars[k]
                                  /\ \A j \in 1..(k - 1) :
                                        \A i \in 1..Len(trimmed) : trimmed[i] # LogoInvalidChars[j]
                       IN  FailArg("LogoInvalidChar", <<LogoInvalidChars[k]>>)
             ELSE IF StartsWith(trimmed, <<"/">>) \/ (Len(trimmed) > 1 /\ trimmed[2] = ":")
                  THEN Fail("LogoAbsolute")
             ELSE IF Len(trimmed) > LogoPathMaxLen THEN Fail("LogoTooLong")
             ELSE Ok

validate_company_initial(company_initial) ==
    IF ~Truthy(company_initial) THEN Fail("InitialRequired")
    ELSE IF ~IsStr(company_initial) THEN Fail("InitialNotString")
    ELSE LET trimmed == Strip(company_initial.v, Whitespace)
         IN  IF Len(trimmed) = 0 THEN Fail("InitialEmpty")
             ELSE IF Len(trimmed) > InitialMaxLen THEN Fail("InitialTooLong")
             ELSE IF \E i \in 1..Len(trimmed) : ~(IsAlnum(trimmed[i]) \/ trimmed[i] = "_")
                  THEN Fail("InitialInvalidChars")
             ELSE IF ~IsAlpha(trimmed[1]) THEN Fail("InitialStartLetter")
             ELSE Ok

----------------------------------------------------------------------------
(* validate_tenant *)

\* 'id' in tenant, for a tenant that is a list
ListHasId(l) == \E i \in 1..Len(l) : l[i].t = "str" /\ l[i].v = <<"i","d">>

\* tenant['id'] != tenant_id
IdDiffers(id, tenant_id) == ~(id.t = "str" /\ id.v = tenant_id)

\* as AppNameOf, the legacy name field never read
AppNameOnly(tenant) ==
    IF tenant.v.appName.t = "absent" THEN None ELSE tenant.v.appName

\* tenant.get('appName') or tenant.get('name')
AppNameOf(tenant) ==
    IF Truthy(tenant.v.appName) THEN tenant.v.appName
    ELSE IF tenant.v.name.t = "absent" THEN None ELSE tenant.v.name

\* tenant_id.replace('-', '').replace('_', '').upper()
AutoInitial(tenant_id) == Upper(RemoveChar(RemoveChar(tenant_id, "-"), "_"))

\* as CheckCompanyInitial, the derived initial taken without validating it
CheckCompanyInitialUnchecked(tenant, tenant_id) ==
    IF ~Truthy(tenant.v.companyInitial) THEN Ok
    ELSE validate_company_initial(tenant.v.companyInitial)

\* the companyInitial step of validate_tenant
CheckCompanyInitial(tenant, tenant_id) ==
    IF ~Truthy(tenant.v.companyInitial)
    THEN validate_company_initial(Str(AutoInitial(tenant_id)))
    ELSE validate_company_initial(tenant.v.companyInitial)

\* as CheckFeatures, the entries not looked up in the catalog
RECURSIVE CheckFeaturesNoCatalog(_, _)
CheckFeaturesNoCatalog(features, available_plugins) ==
    IF features = <<>> THEN Ok
    ELSE IF ~IsStr(Head(features)) THEN Fail("FeaturesNotStrings")
    ELSE CheckFeaturesNoCatalog(Tail(features), available_plugins)

\* the loop over enabledFeatures: the first entry that is not a string or
\* not a key of the catalog decides the error
RECURSIVE CheckFeatures(_, _)
CheckFeatures(features, available_plugins) ==
    IF features = <<>> THEN Ok
    ELSE LET feature == Head(features)
         IN  IF ~IsStr(feature) THEN Fail("FeaturesNotStrings")
             ELSE IF feature.v \notin available_plugins
                  THEN FailArg("UnknownPlugin", feature.v)
             ELSE CheckFeatures(Tail(features), available_plugins)

\* as ValidateTenantDict, logoPath validated before packageName
ValidateTenantDictLogoFirst(tenant, tenant_id, available_plugins) ==
    IF tenant.v.id.t = "absent" \/ ~Truthy(tenant.v.id) THEN Fail("TenantIdRequired")
    ELSE IF IdDiffers(tenant.v.id, tenant_id) THEN Fail("TenantIdMismatch")
    ELSE LET app_name == AppNameOf(tenant)
             ci == CheckCompanyInitial(tenant, tenant_id)
             pk == validate_package_name(tenant.v.packageName)
             lg == validate_logo_path(IF tenant.v.logoPath.t = "absent"
                                      THEN Str(<<>>) ELSE tenant.v.logoPath)
         IN  IF ~Truthy(app_name) THEN Fail("AppNameRequired")
             ELSE IF ~IsStr(app_name) THEN Raise("AttributeError")
             ELSE IF Strip(app_name.v, Whitespace) = <<>> THEN Fail("AppNameRequired")
             ELSE IF ~ci.ok THEN ci
             ELSE IF ~lg.ok THEN lg
             ELSE IF ~Truthy(tenant.v.packageName) THEN Fail("PackageNameRequired")
             ELSE IF ~pk.ok THEN pk
             ELSE IF tenant.v.enabledFeatures.t = "absent" THEN Fail("FeaturesRequired")
             ELSE IF ~IsList(tenant.v.enabledFeatures) THEN Fail("FeaturesNotArray")
             ELSE CheckFeatures(tenant.v.enabledFeatures.v, available_plugins)

\* validate_tenant on a dict
ValidateTenantDict(tenant, tenant_id, available_plugins) ==
    IF tenant.v.id.t = "absent" \/ ~Truthy(tenant.v.id) THEN Fail("TenantIdRequired")
    ELSE IF IdDiffers(tenant.v.id, tenant_id) THEN Fail("TenantIdMismatch")
    ELSE LET app_name == AppNameOf(tenant)
         IN  IF ~Truthy(app_name) THEN Fail("AppNameRequired")
             ELSE IF ~IsStr(app_name) THEN Raise("AttributeError")
             ELSE IF Strip(app_name.v, Whitespace) = <<>> THEN Fail("AppNameRequired")
             ELSE LET ci == CheckCompanyInitial(tenant, tenant_id)
                  IN  IF ~ci.ok THEN ci
                      ELSE IF ~Truthy(tenant.v.packageName) THEN Fail("PackageNameRequired")
                      ELSE LET pk == validate_package_name(tenant.v.packageName)
                           IN  IF ~pk.ok THEN pk
                               ELSE LET lg == validate_logo_path(
                                              IF tenant.v.logoPath.t = "absent"
                                              THEN Str(<<>>) ELSE tenant.v.logoPath)
                                    IN  IF ~lg.ok THEN lg
                                        ELSE IF tenant.v.enabledFeatures.t = "absent"
                                             THEN Fail("FeaturesRequired")
                                        ELSE IF ~IsList(tenant.v.enabledFeatures)
                                             THEN Fail("FeaturesNotArray")
                                        ELSE CheckFeatures(tenant.v.enabledFeatures.v,
                                                           available_plugins)

\* validate_tenant: a tenant that is no dict meets the 'id' membership test
\* and the tenant['id'] subscript of the first line
validate_tenant(tenant, tenant_id, available_plugins) ==
    CASE tenant.t = "dict" -> ValidateTenantDict(tenant, tenant_id, available_plugins)
      [] tenant.t = "str" ->
            IF Contains(tenant.v, <<"i","d">>) THEN Raise("TypeError")
            ELSE Fail("TenantIdRequired")
      [] tenant.t = "list" ->
            IF ListHasId(tenant.v) THEN Raise("TypeError")
            ELSE Fail("TenantIdRequired")
      [] OTHER -> Raise("TypeError")

----------------------------------------------------------------------------
(* validate_all_tenants *)

\* as ValidateEach, the loop going on after a failure and the last one kept
RECURSIVE ValidateEachKeepsLast(_, _)
ValidateEachKeepsLast(tenants, plugins_) ==
    IF tenants = <<>> THEN Ok
    ELSE LET r == validate_tenant(Head(tenants).val, Head(tenants).key, plugins_)
             rest == ValidateEachKeepsLast(Tail(tenants), plugins_)
         IN  IF rest.raised \/ ~rest.ok THEN rest ELSE r

\* the loop over tenants.items(): the first tenant that is not valid (or on
\* which validate_tenant raises) ends it
RECURSIVE ValidateEach(_, _)
ValidateEach(tenants, plugins_) ==
    IF tenants = <<>> THEN Ok
    ELSE LET r == validate_tenant(Head(tenants).val, Head(tenants).key, plugins_)
         IN  IF r.raised \/ ~r.ok THEN r ELSE ValidateEach(Tail(tenants), plugins_)

validate_all_tenants(tenants, plugins_) ==
    IF tenants = <<>> THEN Fail("NoTenants") ELSE ValidateEach(tenants, plugins_)

----------------------------------------------------------------------------
(* Inputs of the calls *)

\* the characters strings are enumerated over: a lowercase and an uppercase
\* letter, a digit, and the characters the code treats specially
Alphabet == {"a", "A", "1", "_", "-", " ", "."}

\* every string over Alphabet of at most n characters
Strings(n) == UNION {[1..k -> Alphabet] : k \in 0..n}

\* n times the character c
Rep(c, n) == [i \in 1..n |-> c]

SampleStrings ==
    { <<"M","y"," ","T","e","n","a","n","t">>,
      <<"M","B">>, <<"2","A","B">>, <<"m","b">>,
      <<"c","o","m",".","c","o","m","p","a","n","y",".","a","p","p">>,
      <<"C","o","m",".","A","p","p">>,
      <<"s","i","n","g","l","e">>,
      \* around the length limits of validate_package_name
      Rep("a", PackageMaxLen - 2) \o <<".", "a">>,
      Rep("a", PackageMaxLen - 1) \o <<".", "a">>,
      <<" ">> \o Rep("a", PackageMaxLen - 2) \o <<".", "a", " ">>,
      \* around the length limit of validate_company_initial
      Rep("A", InitialMaxLen), Rep("A", InitialMaxLen + 1),
      <<" ">> \o Rep("A", InitialMaxLen) \o <<" ">> }

StringInputs == Strings(MaxLen) \cup SampleStrings

\* values that are no strings
OtherValues == {None, Num(0), Num(5), List(<<>>), List(<<Str(<<"a">>)>>)}

\* the characters logo paths are enumerated over: a letter, and the
\* characters validate_logo_path treats specially
LogoAlphabet == {"a", "/", ":", "<", " "}

LogoStrings == UNION {[1..k -> LogoAlphabet] : k \in 0..MaxLen}

LogoInputs ==
    { Str(<<>>), Str(<<" ">>), None, Num(5),
      Str(<<"h","t","t","p","s",":","/","/","x",".","c","o","m","/","l","o","g","o",".","p","n","g">>),
      Str(<<"h","t","t","p",":","/","/">> \o Rep("a", LogoUrlMaxLen - 7)),
      Str(<<"h","t","t","p",":","/","/">> \o Rep("a", LogoUrlMaxLen - 6)),
      Str(<<"h","t","t","p",":","/","/","<">>),
      Str(<<"/","a","b","s","/","p","a","t","h",".","p","n","g">>),
      Str(<<"C",":","a">>), Str(<<"a",":">>), Str(<<"a">>), Str(<<":">>),
      Str(<<"a","/","b",".","p","n","g">>),
      Str(<<"a","<">>), Str(<<"/","?">>), Str(<<"a","\"">>), Str(<<"*",">">>), Str(<<"a","|">>),
      Str(Rep("a", LogoPathMaxLen)), Str(Rep("a", LogoPathMaxLen + 1)),
      Str(<<" ">> \o Rep("a", LogoPathMaxLen) \o <<" ">>),
      \* whitespace around a path and around a URL
      Str(<<" ","/","a">>), Str(<<"a","/","b"," ">>),
      Str(<<" ","h","t","t","p",":","/","/","<">>),
      Str(<<" ">> \o <<"h","t","t","p","s",":","/","/">> \o Rep("a", LogoUrlMaxLen - 8) \o <<" ">>),
      \* falsy values that are no strings
      Num(0), List(<<>>), List(<<Str(<<"a">>)>>) }
    \cup {Str(s) : s \in LogoStrings}

NoStore == <<>>
NoCall == [fn |-> "none", x |-> None, tid |-> <<>>, store |-> NoStore, cat |-> {}]
StrCall(f, x) == [fn |-> f, x |-> x, tid |-> <<>>, store |-> NoStore, cat |-> {}]

----------------------------------------------------------------------------
(* The string functions, each called once on an input *)

InitStr ==
    /\ file = [kind |-> "absent", data |-> NoStore]
    /\ pfile = [kind |-> "absent", data |-> {}]
    /\ mem = NoStore
    /\ plugins = {}
    /\ ret = Pending
    /\ \/ \E s \in StringInputs : call = StrCall("normalize_tenant_id", Str(s))
       \/ \E s \in StringInputs : call = StrCall("validate_package_name", Str(s))
       \/ \E s \in StringInputs : call = StrCall("validate_company_initial", Str(s))
       \/ \E x \in OtherValues : call = StrCall("validate_package_name", x)
       \/ \E x \in OtherValues : call = StrCall("validate_company_initial", x)
       \/ \E x \in LogoInputs : call = StrCall("validate_logo_path", x)

CallNormalize ==
    /\ call.fn = "normalize_tenant_id" /\ ret = Pending
    /\ ret' = OkOut(normalize_tenant_id(call.x.v))
    /\ UNCHANGED <<file, pfile, mem, plugins, call>>

CallValidatePackageName ==
    /\ call.fn = "validate_package_name" /\ ret = Pending
    /\ ret' = validate_package_name(call.x)
    /\ UNCHANGED <<file, pfile, mem, plugins, call>>

CallValidateCompanyInitial ==
    /\ call.fn = "validate_company_initial" /\ ret = Pending
    /\ ret' = validate_company_initial(call.x)
    /\ UNCHANGED <<file, pfile, mem, plugins, call>>

CallValidateLogoPath ==
    /\ call.fn = "validate_logo_path" /\ ret = Pending
    /\ ret' = validate_logo_path(call.x)
    /\ UNCHANGED <<file, pfile, mem, plugins, call>>

NextStr ==
    \/ CallNormalize
    \/ CallValidatePackageName
    \/ CallValidateCompanyInitial
    \/ CallValidateLogoPath

SpecStr == InitStr /\ [][NextStr]_vars

\* the call of fn has returned
Returned(fn) == call.fn = fn /\ ret # Pending

----------------------------------------------------------------------------
(* validate_tenant and validate_all_tenants, each called once on an input *)

Tenant(id, appName, name, companyInitial, packageName, logoPath, enabledFeatures) ==
    Dict([id |-> id, appName |-> appName, name |-> name,
          companyInitial |-> companyInitial, packageName |-> packageName,
          logoPath |-> logoPath, enabledFeatures |-> enabledFeatures])

Acme == <<"a","c","m","e">>
ComAcmeApp == <<"c","o","m",".","a","c","m","e",".","a","p","p">>
Unknown == <<"u","n","k","n","o","w","n">>
PluginX == <<"x">>
PluginU == <<"u">>

\* the map keys validate_tenant is called with: a plain one, one starting
\* with a digit, one whose form without dashes has 20 characters and one
\* whose form without dashes has 21
TenantIds ==
    { Acme, <<"2","a","b">>,
      Rep("a", 10) \o <<"-">> \o Rep("a", InitialMaxLen - 10),
      Rep("a", InitialMaxLen + 1) }

IdValues(tid) == {Absent, Str(<<>>), Str(tid), Str(<<"z">>)}
AppNameValues == {Absent, Str(<<>>), Str(<<" ">>), Str(<<"A","c","m","e">>), Num(5)}
NameValues == {Absent, Str(<<" ">>), Str(<<"N">>)}
CompanyInitialValues == {Absent, Str(<<>>), Str(<<"M","B">>), Str(<<"2","A">>)}
PackageNameValues == {Absent, Str(ComAcmeApp), Str(<<"C","o","m",".","a">>)}
LogoPathValues == {Absent, Str(<<"/","a">>)}
FeatureValues ==
    { Absent, Str(PluginX), List(<<>>), List(<<Str(PluginX)>>),
      List(<<Str(Unknown)>>), List(<<Str(PluginX), Str(PluginU), Str(Unknown)>>),
      List(<<Num(5), Str(Unknown)>>), List(<<Str(Unknown), Num(5)>>) }
Catalogs == {{PluginX}, {PluginX, PluginU}}

\* tenants that are no dicts
OtherTenants ==
    { None, Num(5), Str(<<"a","b","c">>), Str(<<"i","d">>),
      List(<<>>), List(<<Str(<<"i","d">>)>>) }

TenantCall(t, tid, cat) ==
    [fn |-> "validate_tenant", x |-> t, tid |-> tid, store |-> NoStore, cat |-> cat]
AllCall(store, cat) ==
    [fn |-> "validate_all_tenants", x |-> None, tid |-> <<>>, store |-> store, cat |-> cat]

\* a valid tenant stored under key k
GoodTenant(k) ==
    Tenant(Str(k), Str(<<"A","c","m","e">>), Absent, Str(<<"M","B">>),
           Str(ComAcmeApp), Absent, List(<<Str(PluginX)>>))

\* the tenants a store is built from, for key k
StoreTenants(k) ==
    { GoodTenant(k),
      [GoodTenant(k) EXCEPT !.v.packageName = Absent],
      [GoodTenant(k) EXCEPT !.v.enabledFeatures = List(<<Str(PluginU)>>)],
      [GoodTenant(k) EXCEPT !.v.id = Str(<<"z">>)],
      [GoodTenant(k) EXCEPT !.v.companyInitial = Absent] }

StoreKeys == {Acme, <<"b">>, <<"2","a","b">>}

\* the store of the spec's example
AcmeStore ==
    << [key |-> Acme,
        val |-> Tenant(Str(Acme), Str(<<"A","c","m","e">>), Absent, Absent,
                       Str(ComAcmeApp), Absent, List(<<Str(Unknown)>>))] >>

\* the keys of a store, in order
Keys(store) == [i \in 1..Len(store) |-> store[i].key]

\* every store of at most n tenants, the keys distinct
Stores(n) ==
    UNION { { st \in [1..k -> [key : StoreKeys, val : UNION {StoreTenants(q) : q \in StoreKeys}]] :
                /\ \A i \in 1..k : st[i].val \in StoreTenants(st[i].key)
                /\ \A i, j \in 1..k : i # j => st[i].key # st[j].key }
            : k \in 0..n }

InitTenant ==
    /\ file = [kind |-> "absent", data |-> NoStore]
    /\ pfile = [kind |-> "absent", data |-> {}]
    /\ mem = NoStore
    /\ plugins = {}
    /\ ret = Pending
    /\ \/ \E tid \in TenantIds, cat \in Catalogs :
            \E id \in IdValues(tid), an \in AppNameValues, nm \in NameValues,
               ci \in CompanyInitialValues, pk \in PackageNameValues,
               lg \in LogoPathValues, ef \in FeatureValues :
                call = TenantCall(Tenant(id, an, nm, ci, pk, lg, ef), tid, cat)
       \/ \E t \in OtherTenants : call = TenantCall(t, Acme, {PluginX})
       \/ \E st \in Stores(MaxTenants), cat \in Catalogs : call = AllCall(st, cat)
       \/ call = AllCall(AcmeStore, {PluginX})

CallValidateTenant ==
    /\ call.fn = "validate_tenant" /\ ret = Pending
    /\ ret' = validate_tenant(call.x, call.tid, call.cat)
    /\ UNCHANGED <<file, pfile, mem, plugins, call>>

CallValidateAllTenants ==
    /\ call.fn = "validate_all_tenants" /\ ret = Pending
    /\ ret' = validate_all_tenants(call.store, call.cat)
    /\ UNCHANGED <<file, pfile, mem, plugins, call>>

NextTenant ==
    \/ CallValidateTenant
    \/ CallValidateAllTenants

SpecTenant == InitTenant /\ [][NextTenant]_vars

----------------------------------------------------------------------------
(* load_tenants, load_plugins, save_tenants *)

\* as DictSet, a key the dict holds moved to the end (del d[k]; d[k] = v)
DictSetAtEnd(d, k, v) ==
    Append(SelectSeq(d, LAMBDA e : e.key # k), [key |-> k, val |-> v])

\* d[k] = v on an insertion-ordered dict: a key it holds keeps its place
DictSet(d, k, v) ==
    IF \E i \in 1..Len(d) : d[i].key = k
    THEN [i \in 1..Len(d) |-> IF d[i].key = k THEN [key |-> k, val |-> v] ELSE d[i]]
    ELSE Append(d, [key |-> k, val |-> v])

\* as WithId, the id field left as it is
WithIdUntouched(tenant, normalized_key) == tenant

\* tenant['id'] = normalized_key, on a dict only
WithId(tenant, normalized_key) ==
    IF IsDict(tenant) THEN [tenant EXCEPT !.v.id = Str(normalized_key)] ELSE tenant

\* the normalizing loop of load_tenants and save_tenants over the items
\* still to visit, normalized_data being the dict built so far
RECURSIVE NormalizeItems(_, _)
NormalizeItems(normalized_data, items) ==
    IF items = <<>> THEN normalized_data
    ELSE LET normalized_key == normalize_tenant_id(Head(items).key)
         IN  NormalizeItems(
                 DictSet(normalized_data, normalized_key,
                         WithId(Head(items).val, normalized_key)),
                 Tail(items))

\* what the loop leaves in the caller's dict: the keys as they were, the id
\* of every dict rewritten in place
MutatedByLoop(tenants) ==
    [i \in 1..Len(tenants) |->
        [key |-> tenants[i].key,
         val |-> WithId(tenants[i].val, normalize_tenant_id(tenants[i].key))]]

\* load_tenants on file f; io is whether reading the file goes through
load_tenants(f, io) ==
    IF f.kind = "absent" THEN Fail("FileNotFound")
    ELSE IF io = "error" THEN Fail("ReadError")
    ELSE IF f.kind = "invalid_json" THEN Fail("InvalidJSON")
    ELSE IF f.kind = "not_object" THEN Fail("InvalidFormat")
    ELSE OkOut(NormalizeItems(<<>>, f.data))

\* load_plugins on file f: the catalog is the set of the object's keys
load_plugins(f, io) ==
    IF f.kind = "absent" THEN Fail("FileNotFound")
    ELSE IF io = "error" THEN Fail("ReadError")
    ELSE IF f.kind = "invalid_json" THEN Fail("InvalidJSON")
    ELSE IF f.kind = "not_object" THEN Fail("InvalidFormat")
    ELSE OkOut(f.data)

Truncated == [kind |-> "invalid_json", data |-> NoStore]

\* as save_tenants, the file written whatever the validation says
save_tenants_unvalidated(tenants, plugins_, f, io) ==
    LET normalized_tenants == NormalizeItems(<<>>, tenants)
        v == validate_all_tenants(normalized_tenants, plugins_)
    IN  [ret |-> IF v.raised THEN v ELSE Ok,
         file |-> IF v.raised THEN f ELSE [kind |-> "object", data |-> normalized_tenants]]

\* as save_tenants, the keys written in the reverse of the order supplied
save_tenants_reversed(tenants, plugins_, f, io) ==
    LET normalized_tenants == NormalizeItems(<<>>, tenants)
        v == validate_all_tenants(normalized_tenants, plugins_)
        n == Len(normalized_tenants)
    IN  IF v.raised \/ ~v.ok THEN [ret |-> v, file |-> f]
        ELSE IF io = "ok"
             THEN [ret |-> Ok,
                   file |-> [kind |-> "object",
                             data |-> [i \in 1..n |-> normalized_tenants[n + 1 - i]]]]
             ELSE [ret |-> Fail("WriteError"), file |-> f]

\* save_tenants on the caller's dict, the file being f.  io is what the
\* file system does: "ok"; "permission" (open is refused); "open_error"
\* (open fails otherwise); "dump_error" (the file is opened, hence
\* truncated, and json.dump fails)
save_tenants(tenants, plugins_, f, io) ==
    LET normalized_tenants == NormalizeItems(<<>>, tenants)
        v == validate_all_tenants(normalized_tenants, plugins_)
    IN  IF v.raised \/ ~v.ok THEN [ret |-> v, file |-> f]
        ELSE CASE io = "ok" ->
                    [ret |-> Ok, file |-> [kind |-> "object", data |-> normalized_tenants]]
               [] io = "permission" -> [ret |-> Fail("PermissionDenied"), file |-> f]
               [] io = "open_error" -> [ret |-> Fail("WriteError"), file |-> f]
               [] OTHER -> [ret |-> Fail("WriteError"), file |-> Truncated]

----------------------------------------------------------------------------
(* The session: the caller loads, edits its store, and saves *)

OpCall(fn, store, cat) == [fn |-> fn, x |-> None, tid |-> <<>>, store |-> store, cat |-> cat]

\* the keys and records the caller's edits put into its store
EditKeys == {<<"a">>, <<"A">>, <<"b","_","c">>}
EditTenants(k) ==
    { GoodTenant(k), [GoodTenant(k) EXCEPT !.v.packageName = Absent], None }

\* the catalog of the plugins file
PluginsFile == [kind |-> "object", data |-> {PluginX}]

\* a tenants file saved earlier against that catalog
ValidFiles ==
    { [kind |-> "object", data |-> <<[key |-> <<"a">>, val |-> GoodTenant(<<"a">>)]>>],
      [kind |-> "object",
       data |-> <<[key |-> <<"b","-","c">>, val |-> GoodTenant(<<"b","-","c">>)],
                  [key |-> <<"a">>, val |-> GoodTenant(<<"a">>)]>>] }

MyTenant == <<"M","y"," ","T","e","n","a","n","t">>

\* tenants files written by hand
RawFiles ==
    { [kind |-> "object", data |-> <<[key |-> MyTenant, val |-> GoodTenant(MyTenant)]>>],
      [kind |-> "object",
       data |-> <<[key |-> <<"A">>, val |-> [GoodTenant(<<"A">>) EXCEPT !.v.id = Absent]],
                  [key |-> <<"b">>, val |-> None]>>],
      [kind |-> "object",
       data |-> <<[key |-> <<"a","_">>, val |-> GoodTenant(<<"z">>)],
                  [key |-> <<"b">>, val |-> Str(<<"a","b","c">>)],
                  [key |-> <<"A">>, val |-> List(<<>>)]>>],
      [kind |-> "object", data |-> <<[key |-> <<"-">>, val |-> Num(5)]>>],
      [kind |-> "object", data |-> NoStore],
      [kind |-> "not_object", data |-> NoStore],
      [kind |-> "invalid_json", data |-> NoStore] }

InitSession ==
    /\ mem = NoStore
    /\ plugins = {}
    /\ call = NoCall
    /\ ret = Pending

Init ==
    /\ file \in {[kind |-> "absent", data |-> NoStore]} \cup ValidFiles
    /\ pfile \in {PluginsFile, [kind |-> "absent", data |-> {}]}
    /\ InitSession

InitRaw ==
    /\ file \in RawFiles
    /\ pfile = PluginsFile
    /\ InitSession

\* the caller calls load_tenants and holds the dict returned
LoadTenants ==
    \E io \in {"ok", "error"} :
        /\ call' = OpCall("load_tenants", NoStore, {})
        /\ ret' = load_tenants(file, io)
        /\ mem' = ret'.out
        /\ UNCHANGED <<file, pfile, plugins>>

\* the caller calls load_plugins and holds the catalog returned
LoadPlugins ==
    \E io \in {"ok", "error"} :
        /\ call' = OpCall("load_plugins", NoStore, {})
        /\ ret' = load_plugins(pfile, io)
        /\ plugins' = IF ret'.ok THEN ret'.out ELSE {}
        /\ UNCHANGED <<file, pfile, mem>>

\* the caller adds or replaces a tenant of its store
PutTenant ==
    \E k \in EditKeys : \E t \in EditTenants(k) :
        /\ (\E i \in 1..Len(mem) : mem[i].key = k) \/ Len(mem) < MaxTenants
        /\ mem' = DictSet(mem, k, t)
        /\ mem' # mem
        /\ call' = OpCall("edit", NoStore, {})
        /\ ret' = Pending
        /\ UNCHANGED <<file, pfile, plugins>>

\* the caller removes a tenant of its store
DeleteTenant ==
    \E i \in 1..Len(mem) :
        /\ mem' = SelectSeq(mem, LAMBDA e : e.key # mem[i].key)
        /\ call' = OpCall("edit", NoStore, {})
        /\ ret' = Pending
        /\ UNCHANGED <<file, pfile, plugins>>

\* the caller calls save_tenants on its store and its catalog
SaveTenants ==
    \E io \in {"ok", "permission", "open_error", "dump_error"} :
        LET r == save_tenants(mem, plugins, file, io)
        IN  /\ call' = OpCall("save_tenants", mem, plugins)
            /\ ret' = r.ret
            /\ file' = r.file
            /\ mem' = MutatedByLoop(mem)
            /\ UNCHANGED <<pfile, plugins>>

Next ==
    \/ LoadTenants
    \/ LoadPlugins
    \/ PutTenant
    \/ DeleteTenant
    \/ SaveTenants

Spec == Init /\ [][Next]_vars

SpecRaw == InitRaw /\ [][Next]_vars

----------------------------------------------------------------------------
(* load_tenants and save_tenants on maps whose keys collide *)

\* keys as a hand-written file or a caller's map may hold them: three that
\* normalize to "a" and one that normalizes to "b"
RawKeys == {<<"a">>, <<"A">>, <<"a","_">>, <<"b">>}

\* the records held under key k: two valid ones that differ in logoPath, and
\* one that is no object
KeyRecords(k) ==
    { GoodTenant(k), [GoodTenant(k) EXCEPT !.v.logoPath = Str(<<"a">>)], None }

\* the maps of at most n entries with distinct keys of RawKeys, in every
\* order
RECURSIVE KeyStores(_)
KeyStores(n) ==
    IF n = 0 THEN {NoStore}
    ELSE LET shorter == KeyStores(n - 1)
             \* the maps st extended by one entry under a key st does not hold
             Extended(st) ==
                 UNION { { Append(st, [key |-> k, val |-> v]) : v \in KeyRecords(k) }
                         : k \in {q \in RawKeys : \A i \in 1..Len(st) : st[i].key # q} }
         IN  shorter \cup UNION { Extended(st) : st \in {s \in shorter : Len(s) = n - 1} }

\* the caller holds the catalog and either a map it built, no file being
\* there, or nothing yet, a hand-written file being there
InitKeys ==
    /\ pfile = PluginsFile
    /\ plugins = {PluginX}
    /\ call = NoCall
    /\ ret = Pending
    /\ \E st \in KeyStores(MaxKeys) :
          \/ file = [kind |-> "absent", data |-> NoStore] /\ mem = st
          \/ file = [kind |-> "object", data |-> st] /\ mem = NoStore

NextKeys ==
    \/ LoadTenants
    \/ SaveTenants

SpecKeys == InitKeys /\ [][NextKeys]_vars

----------------------------------------------------------------------------
(* Claims about the string functions, under SpecStr *)

\* the slug form: no uppercase letter, space or underscore, no two dashes in
\* a row, no dash at either end
IsSlug(r) ==
    /\ \A i \in 1..Len(r) : r[i] \notin Uppers /\ r[i] # " " /\ r[i] # "_"
    /\ \A i \in 1..(Len(r) - 1) : ~(r[i] = "-" /\ r[i+1] = "-")
    /\ r # <<>> => r[1] # "-" /\ r[Len(r)] # "-"

\* C3: normalize_tenant_id returns on every string, normalizing its result
\* again changes nothing, and the result holds no uppercase letter, no
\* space, no underscore, no two consecutive dashes and no dash at either end
C3_NormalizeIdempotentSlug ==
    Returned("normalize_tenant_id") =>
        /\ ~ret.raised
        /\ normalize_tenant_id(ret.out) = ret.out
        /\ IsSlug(ret.out)

\* the key "My Tenant" has become "my-tenant"
C3_Witness ==
    /\ Returned("normalize_tenant_id")
    /\ call.x.v = <<"M","y"," ","T","e","n","a","n","t">>
    /\ ret.out = <<"m","y","-","t","e","n","a","n","t">>

\* a package name as the claim describes it: at most 100 characters, at
\* least two segments between dots, each one non-empty, starting with a
\* letter and made of lowercase letters, digits and underscores
PackageWellFormed(s) ==
    /\ Len(s) <= PackageMaxLen
    /\ \A i \in 1..Len(s) : s[i] \in Lowers \cup Digits \cup {"_", "."}
    /\ \E i \in 1..Len(s) : s[i] = "."
    /\ s # <<>> /\ s[1] \in Lowers /\ s[Len(s)] # "."
    /\ \A i \in 1..(Len(s) - 1) : s[i] = "." => s[i+1] \in Lowers

\* C8 as stated: validate_package_name accepts exactly the well-formed
\* values as given, nothing being normalized to make a value pass
C8_AsStated ==
    Returned("validate_package_name") =>
        /\ ~ret.raised
        /\ ret.ok <=> (IsStr(call.x) /\ PackageWellFormed(call.x.v))
        /\ ~ret.ok => ret.err # ""

\* C8 amended: validate_package_name accepts exactly the strings whose form
\* with the surrounding whitespace trimmed is well-formed; every other value
\* is rejected with a message, and no uppercase letter is accepted
C8_PackageNameTrimmed ==
    Returned("validate_package_name") =>
        /\ ~ret.raised
        /\ ret.ok <=> (IsStr(call.x) /\ PackageWellFormed(Strip(call.x.v, Whitespace)))
        /\ ~ret.ok => ret.err # ""
        /\ (IsStr(call.x) /\ \E i \in 1..Len(call.x.v) : call.x.v[i] \in Uppers) => ~ret.ok

\* " a.a" is accepted although it is not well-formed as given
C8_Witness ==
    /\ Returned("validate_package_name")
    /\ call.x = Str(<<" ", "a", ".", "a">>)
    /\ ret.ok

\* a company initial as the claim describes it: 1 to 20 characters, only
\* uppercase letters, digits and underscores, a letter first
InitialWellFormed(s) ==
    /\ Len(s) >= 1 /\ Len(s) <= InitialMaxLen
    /\ \A i \in 1..Len(s) : s[i] \in Uppers \cup Digits \cup {"_"}
    /\ IsAlpha(s[1])

\* C9: validate_company_initial accepts exactly the values that, trimmed,
\* are 1 to 20 uppercase letters, digits and underscores starting with a
\* letter, and rejects every other value with a message
C9_CompanyInitialUppercase ==
    Returned("validate_company_initial") =>
        /\ ~ret.raised
        /\ ret.ok <=> (IsStr(call.x) /\ InitialWellFormed(Strip(call.x.v, Whitespace)))
        /\ ~ret.ok => ret.err # ""

\* a logo path as the claim describes it: empty, or a URL of at most 500
\* characters, or a value without < > | ? * ", without a leading "/",
\* without ":" as its second character, and of at most 200 characters
LogoWellFormed(s) ==
    \/ s = <<>>
    \/ /\ \/ StartsWith(s, <<"h","t","t","p",":","/","/">>)
          \/ StartsWith(s, <<"h","t","t","p","s",":","/","/">>)
       /\ Len(s) <= LogoUrlMaxLen
    \/ /\ ~StartsWith(s, <<"h","t","t","p",":","/","/">>)
       /\ ~StartsWith(s, <<"h","t","t","p","s",":","/","/">>)
       /\ \A i \in 1..Len(s) : s[i] \notin {"<", ">", "|", "?", "*", "\""}
       /\ s[1] # "/"
       /\ Len(s) >= 2 => s[2] # ":"
       /\ Len(s) <= LogoPathMaxLen

\* C11 as stated: validate_logo_path accepts the empty or absent value and,
\* of the strings, exactly those that as given are a URL of at most 500
\* characters or a relative path of at most 200 characters without invalid
\* characters
C11_AsStated ==
    (Returned("validate_logo_path") /\ (IsStr(call.x) \/ call.x = None)) =>
        /\ ~ret.raised
        /\ ret.ok <=> (call.x = None \/ LogoWellFormed(call.x.v))

\* C11 amended: validate_logo_path accepts every falsy value, rejects every
\* other value that is no string, and accepts a string exactly when its form
\* with the surrounding whitespace trimmed is empty, a URL of at most 500
\* characters whatever its characters, or a relative path of at most 200
\* characters without < > | ? * ", without a leading "/" and without ":" as
\* its second character; "/abs/path.png" is rejected as absolute
C11_LogoPathTrimmed ==
    Returned("validate_logo_path") =>
        /\ ~ret.raised
        /\ ret.ok <=> \/ ~Truthy(call.x)
                      \/ IsStr(call.x) /\ LogoWellFormed(Strip(call.x.v, Whitespace))
        /\ ~ret.ok => ret.err # ""
        /\ call.x = Str(<<"/","a","b","s","/","p","a","t","h",".","p","n","g">>)
              => ret.err = "LogoAbsolute"
        /\ call.x \in {Str(<<>>),
                       Str(<<"h","t","t","p","s",":","/","/","x",".","c","o","m","/","l","o","g","o",".","p","n","g">>)}
              => ret.ok

\* " /a" does not start with "/" as given and is rejected as absolute
C11_Witness ==
    /\ Returned("validate_logo_path")
    /\ call.x = Str(<<" ", "/", "a">>)
    /\ ret.err = "LogoAbsolute"

----------------------------------------------------------------------------
(* Claims about validate_tenant and validate_all_tenants, under SpecTenant *)

\* C4: no entry point raises; every failure is a returned message
C4_NoEntryPointRaises == ~ret.raised

\* the record's appName (or name) is a string, or is missing or empty
TypedAppName(t) == ~Truthy(AppNameOf(t)) \/ IsStr(AppNameOf(t))

\* record t, stored under tid, violates check k of validate_tenant
Violates(k, t, tid, cat) ==
    CASE k = 1 -> t.v.id.t = "absent" \/ ~Truthy(t.v.id)
      [] k = 2 -> IdDiffers(t.v.id, tid)
      [] k = 3 -> ~Truthy(AppNameOf(t)) \/ Strip(AppNameOf(t).v, Whitespace) = <<>>
      [] k = 4 -> ~CheckCompanyInitial(t, tid).ok
      [] k = 5 -> ~Truthy(t.v.packageName) \/ ~validate_package_name(t.v.packageName).ok
      [] k = 6 -> t.v.logoPath.t # "absent" /\ ~validate_logo_path(t.v.logoPath).ok
      [] k = 7 -> \/ ~IsList(t.v.enabledFeatures)
                  \/ \E i \in 1..Len(t.v.enabledFeatures.v) :
                        \/ ~IsStr(t.v.enabledFeatures.v[i])
                        \/ t.v.enabledFeatures.v[i].v \notin cat

\* the check whose message err is
CheckOfError(err) ==
    CASE err = "TenantIdRequired" -> 1
      [] err = "TenantIdMismatch" -> 2
      [] err = "AppNameRequired" -> 3
      [] err \in {"InitialRequired", "InitialNotString", "InitialEmpty", "InitialTooLong",
                  "InitialInvalidChars", "InitialStartLetter"} -> 4
      [] err \in {"PackageNameRequired", "PackageRequired", "PackageNotString",
                  "PackageEmpty", "PackageTooLong", "PackageParts", "PackageEmptyPart",
                  "PackageStartLetter", "PackageInvalidChars", "PackageLowercase"} -> 5
      [] err \in {"LogoNotString", "LogoUrlTooLong", "LogoInvalidChar", "LogoAbsolute",
                  "LogoTooLong"} -> 6
      [] err \in {"FeaturesRequired", "FeaturesNotArray", "FeaturesNotStrings",
                  "UnknownPlugin"} -> 7
      [] OTHER -> 0

ViolatedChecks(t, tid, cat) == {k \in 1..7 : Violates(k, t, tid, cat)}

\* validate_tenant has returned on a dict whose appName is no non-string
TenantReturned ==
    Returned("validate_tenant") /\ IsDict(call.x) /\ TypedAppName(call.x)

\* C5: validate_tenant reports the lowest-numbered check the record
\* violates, in the order id present, id equals key, appName,
\* companyInitial, packageName, logoPath, enabledFeatures, and accepts the
\* record exactly when it violates none
C5_FirstViolatedCheck ==
    TenantReturned =>
        LET V == ViolatedChecks(call.x, call.tid, call.cat)
        IN  /\ ~ret.raised
            /\ ret.ok <=> V = {}
            /\ ret.ok => ret = Ok
            /\ ~ret.ok => /\ CheckOfError(ret.err) \in V
                          /\ \A k \in V : CheckOfError(ret.err) <= k

\* a record that violates checks 5, 6 and 7 and none before is rejected by
\* the packageName message
C5_Witness ==
    /\ TenantReturned
    /\ ViolatedChecks(call.x, call.tid, call.cat) = {5, 6, 7}
    /\ ret = Fail("PackageNameRequired")

\* C6: validate_all_tenants returns (false, "No tenants found") on an empty
\* store; otherwise (true, null) exactly when every record passes
\* validate_tenant under its own key, and else the result of validate_tenant
\* on the first failing record in insertion order
C6_FirstFailingRecord ==
    Returned("validate_all_tenants") =>
        LET st == call.store
            r(i) == validate_tenant(st[i].val, st[i].key, call.cat)
            failing == {i \in 1..Len(st) : ~r(i).ok}
        IN  /\ ~ret.raised
            /\ st = <<>> => ret = Fail("NoTenants")
            /\ st # <<>> => /\ ret.ok <=> failing = {}
                            /\ ret.ok => ret = Ok
                            /\ ~ret.ok => \E i \in failing :
                                              /\ \A j \in failing : i <= j
                                              /\ ret = r(i)

\* two records fail with different messages and the first one's is returned
C6_Witness ==
    /\ Returned("validate_all_tenants")
    /\ Len(call.store) >= 2
    /\ validate_tenant(call.store[1].val, call.store[1].key, call.cat)
          = Fail("PackageNameRequired")
    /\ validate_tenant(call.store[2].val, call.store[2].key, call.cat)
          = Fail("TenantIdMismatch")
    /\ ret = Fail("PackageNameRequired")

\* enabledFeatures entry i of record t is no string or no key of the catalog
Offending(t, cat, i) ==
    ~IsStr(t.v.enabledFeatures.v[i]) \/ t.v.enabledFeatures.v[i].v \notin cat

RejectedAtCheck4 == ~ret.ok /\ CheckOfError(ret.err) = 4
PassedCheck4 == ret.ok \/ CheckOfError(ret.err) > 4

\* the initial derived from a tenant id: dashes and underscores removed,
\* upper-cased
DerivedInitial(tid) == Upper(SelectSeq(tid, LAMBDA c : c \notin {"-", "_"}))

\* validate_tenant has returned on a record that passes checks 1 to 3
ReachedCheck4 ==
    TenantReturned /\ ViolatedChecks(call.x, call.tid, call.cat) \cap {1, 2, 3} = {}

\* C10 as stated: with no companyInitial key the initial derived from the
\* tenant id is validated; a companyInitial that is present is validated as
\* given, the tenant id not consulted
C10_AsStated ==
    ReachedCheck4 =>
        LET ci == call.x.v.companyInitial
            checked == IF ci.t = "absent" THEN Str(DerivedInitial(call.tid)) ELSE ci
        IN  /\ RejectedAtCheck4 <=> ~validate_company_initial(checked).ok
            /\ PassedCheck4 <=> validate_company_initial(checked).ok

\* C10 amended: with a companyInitial that is absent or empty (any falsy
\* value) the initial derived from the tenant id is validated, so the record
\* is rejected at check 4 exactly when the tenant id yields no valid
\* initial; any other companyInitial is validated as given
C10_DerivedWhenAbsentOrEmpty ==
    ReachedCheck4 =>
        LET ci == call.x.v.companyInitial
            checked == IF ci.t = "absent" \/ ~Truthy(ci)
                       THEN Str(DerivedInitial(call.tid)) ELSE ci
        IN  /\ RejectedAtCheck4 <=> ~validate_company_initial(checked).ok
            /\ RejectedAtCheck4 => ret = validate_company_initial(checked)
            /\ PassedCheck4 <=> validate_company_initial(checked).ok

\* no companyInitial and a tenant id starting with a digit: rejected at
\* check 4 by the must-start-with-a-letter message
C10_Witness ==
    /\ ReachedCheck4
    /\ call.x.v.companyInitial = Absent
    /\ call.tid = <<"2","a","b">>
    /\ ret = Fail("InitialStartLetter")

\* value x is present and non-empty after trimming
NonBlank(x) == IsStr(x) /\ Strip(x.v, Whitespace) # <<>>

\* validate_tenant has returned on a record that passes checks 1 and 2 and
\* whose appName and name are strings where present
ReachedCheck3 ==
    /\ Returned("validate_tenant") /\ IsDict(call.x)
    /\ call.x.v.id = Str(call.tid) /\ call.tid # <<>>
    /\ call.x.v.appName.t \in {"absent", "str"}
    /\ call.x.v.name.t \in {"absent", "str"}

\* the call got past check 3
PassedCheck3 == ~ret.raised /\ (ret.ok \/ CheckOfError(ret.err) > 3)

\* C13 as stated: check 3 passes exactly when appName or, failing that, name
\* is non-blank, so that a blank appName with a non-blank name passes, and
\* a record that fails it gets the appName-is-required message
C13_AsStated ==
    ReachedCheck3 =>
        /\ PassedCheck3 <=> (NonBlank(call.x.v.appName) \/ NonBlank(call.x.v.name))
        /\ ~PassedCheck3 => ret = Fail("AppNameRequired")

\* C13 amended: check 3 reads appName, and reads name in its place only when
\* appName is absent or the empty string; it passes exactly when the value
\* read is non-blank, so that a record without appName (or with an empty
\* one) and with a non-blank name passes, a whitespace-only appName is
\* rejected whatever name holds, and every record failing the check gets
\* the appName-is-required message
C13_NameWhenAppNameEmpty ==
    ReachedCheck3 =>
        LET appName == call.x.v.appName
            name == call.x.v.name
            read == IF appName \in {Absent, Str(<<>>)} THEN name ELSE appName
        IN  /\ PassedCheck3 <=> NonBlank(read)
            /\ ~PassedCheck3 => ret = Fail("AppNameRequired")
            /\ (appName \in {Absent, Str(<<>>)} /\ NonBlank(name)) => PassedCheck3
            /\ (appName # Str(<<>>) /\ IsStr(appName) /\ ~NonBlank(appName)) => ~PassedCheck3
            /\ (~NonBlank(appName) /\ ~NonBlank(name)) => ~PassedCheck3

\* a whitespace-only appName next to the name "N": appName is required
C13_Witness ==
    /\ ReachedCheck3
    /\ call.x.v.appName = Str(<<" ">>)
    /\ call.x.v.name = Str(<<"N">>)
    /\ ret = Fail("AppNameRequired")

----------------------------------------------------------------------------
(* Claims about the session, under Spec, SpecRaw and SpecKeys *)

\* every record of store st passes validate_tenant under its key
AllAccepted(st, cat) ==
    \A i \in 1..Len(st) : LET r == validate_tenant(st[i].val, st[i].key, cat)
                          IN  ~r.raised /\ r.ok

\* what a step may do to the tenants file
SaveIsAllOrNothing ==
    LET v == validate_all_tenants(NormalizeItems(<<>>, mem), plugins)
    IN  /\ file' # file =>
              /\ call'.fn = "save_tenants"
              /\ ~v.raised /\ v.ok
              /\ file'.kind = "object" => AllAccepted(file'.data, plugins)
        /\ (call'.fn = "save_tenants" /\ ~v.raised /\ ~v.ok) =>
              /\ ret' = v
              /\ file' = file

\* C1: starting from an absent or valid file, only a save_tenants call whose
\* re-normalized store passes validate_all_tenants against the given catalog
\* rewrites the file, and what it writes holds only records validate_tenant
\* accepts; a save whose store fails validation returns (false, that error)
\* and leaves the file as it was
C1_SaveAllOrNothing ==
    /\ file.kind = "object" => AllAccepted(file.data, {PluginX})
    /\ [][SaveIsAllOrNothing]_vars

\* a save of a store with an invalid record was refused, the file written
\* earlier still in place
C1_Witness ==
    /\ Returned("save_tenants")
    /\ ret = Fail("PackageNameRequired")
    /\ Len(call.store) = 2
    /\ file \in ValidFiles

\* C2 as stated: in every map load_tenants returns with no error, and in
\* every map a successful save_tenants writes, each key is a slug and every
\* record's id equals its key
C2_AsStated ==
    /\ (Returned("load_tenants") /\ ret.ok) =>
          \A i \in 1..Len(ret.out) :
              /\ IsSlug(ret.out[i].key)
              /\ IsDict(ret.out[i].val)
              /\ ret.out[i].val.v.id = Str(ret.out[i].key)
    /\ (Returned("save_tenants") /\ ret.ok) =>
          \A i \in 1..Len(file.data) :
              /\ IsSlug(file.data[i].key)
              /\ IsDict(file.data[i].val)
              /\ file.data[i].val.v.id = Str(file.data[i].key)

\* C2 amended: in every map load_tenants returns with no error the keys are
\* distinct slugs and every record that is an object has its id equal to
\* its key, a record that is no object being kept as it is; in every map a
\* successful save_tenants writes the keys are distinct slugs and every
\* record is an object whose id equals its key
C2_StoreInvariant ==
    /\ (Returned("load_tenants") /\ ret.ok) =>
          /\ \A i \in 1..Len(ret.out) :
                /\ IsSlug(ret.out[i].key)
                /\ IsDict(ret.out[i].val) => ret.out[i].val.v.id = Str(ret.out[i].key)
                /\ ~IsDict(ret.out[i].val) =>
                      \E j \in 1..Len(file.data) : file.data[j].val = ret.out[i].val
          /\ \A i, j \in 1..Len(ret.out) : i # j => ret.out[i].key # ret.out[j].key
    /\ (Returned("save_tenants") /\ ret.ok) =>
          /\ file.kind = "object"
          /\ \A i \in 1..Len(file.data) :
                /\ IsSlug(file.data[i].key)
                /\ IsDict(file.data[i].val)
                /\ file.data[i].val.v.id = Str(file.data[i].key)
          /\ \A i, j \in 1..Len(file.data) : i # j => file.data[i].key # file.data[j].key

\* the file keyed "My Tenant" has loaded as key "my-tenant" with that id
C2_Witness ==
    /\ Returned("load_tenants") /\ ret.ok
    /\ file.data = <<[key |-> MyTenant, val |-> GoodTenant(MyTenant)]>>
    /\ ret.out = <<[key |-> <<"m","y","-","t","e","n","a","n","t">>,
                    val |-> GoodTenant(<<"m","y","-","t","e","n","a","n","t">>)]>>

\* store st is normalized: its keys are slugs and every record is an object
\* whose id is its key
Normalized(st) ==
    \A i \in 1..Len(st) :
        /\ IsSlug(st[i].key)
        /\ IsDict(st[i].val)
        /\ st[i].val.v.id = Str(st[i].key)

\* the caller holds the map load_tenants returns on the file, the file is
\* normalized and valid against the caller's catalog, and the step is a
\* save_tenants call whose write the file system lets through
RoundTripSave ==
    /\ load_tenants(file, "ok") = OkOut(mem)
    /\ Normalized(file.data)
    /\ AllAccepted(file.data, plugins)
    /\ call'.fn = "save_tenants"
    /\ ret'.err \notin {"PermissionDenied", "WriteError"}

\* C12: on a file that is normalized and valid against the catalog,
\* load_tenants followed by save_tenants of the loaded map succeeds and
\* leaves the file with the same keys in the same order and the same
\* records, and a second load returns a map equal to the first
C12_RoundTrip ==
    [][RoundTripSave =>
          /\ ret' = Ok
          /\ file' = file
          /\ Keys(file'.data) = Keys(mem)
          /\ load_tenants(file', "ok") = OkOut(mem)]_vars

\* the file keyed "b-c", "a" was loaded and saved back, keys in that order
C12_Witness ==
    /\ Returned("save_tenants") /\ ret.ok
    /\ Keys(call.store) = << <<"b","-","c">>, <<"a">> >>
    /\ file.data = call.store
    /\ mem = call.store
    /\ file \in ValidFiles

\* the positions of store input whose key normalizes to slug s
Colliding(input, s) ==
    {i \in 1..Len(input) : normalize_tenant_id(input[i].key) = s}

SetMin(S) == CHOOSE x \in S : \A y \in S : x <= y
SetMax(S) == CHOOSE x \in S : \A y \in S : x >= y

\* two keys of store input normalize to the same slug
HasCollision(input) ==
    \E i, j \in 1..Len(input) :
        i # j /\ normalize_tenant_id(input[i].key) = normalize_tenant_id(input[j].key)

\* store result holds, for every slug of input, one record: the last one of
\* input under that slug (its id set to the slug if it is an object), at
\* the place of the first key of input with that slug
CollisionsResolved(input, result) ==
    /\ \A i \in 1..Len(input) :
          \E j \in 1..Len(result) : result[j].key = normalize_tenant_id(input[i].key)
    /\ \A j \in 1..Len(result) :
          LET S == Colliding(input, result[j].key)
          IN  /\ S # {}
              /\ \A k \in 1..Len(result) : k # j => result[k].key # result[j].key
              /\ result[j].val = WithId(input[SetMax(S)].val, result[j].key)
              /\ \A k \in 1..Len(result) :
                    j < k <=> SetMin(S) < SetMin(Colliding(input, result[k].key))
    /\ HasCollision(input) => Len(result) < Len(input)
    /\ ~HasCollision(input) => Len(result) = Len(input)

\* C14: when keys of the input normalize to the same slug, the store
\* load_tenants returns, and the store a successful save_tenants writes,
\* holds one record under that slug, the last of the input, at the place of
\* the first colliding key, and is shorter than the input; without a
\* collision it is as long as the input.  The collision itself is no error:
\* a file holding an object loads with a null error unless reading fails,
\* and a save fails only by validate_all_tenants (an empty store, a check
\* of validate_tenant) or by the write
C14_KeyCollisionLastWins ==
    /\ (Returned("load_tenants") /\ ret.ok) => CollisionsResolved(file.data, ret.out)
    /\ (Returned("load_tenants") /\ file.kind = "object" /\ ret.err # "ReadError") => ret.ok
    /\ (Returned("save_tenants") /\ ret.ok) =>
          /\ file.kind = "object"
          /\ CollisionsResolved(call.store, file.data)
    /\ (Returned("save_tenants") /\ ~ret.ok /\ ~ret.raised) =>
          \/ CheckOfError(ret.err) \in 1..7
          \/ ret.err \in {"NoTenants", "PermissionDenied", "WriteError"}

\* the caller's records under "A", "b" and "a" were saved as "a", "b", the
\* record of "a" being the later of the two under that slug
C14_Witness ==
    /\ Returned("save_tenants") /\ ret.ok
    /\ call.store = <<[key |-> <<"A">>,
                       val |-> [GoodTenant(<<"A">>) EXCEPT !.v.logoPath = Str(<<"a">>)]],
                      [key |-> <<"b">>, val |-> GoodTenant(<<"b">>)],
                      [key |-> <<"a">>, val |-> GoodTenant(<<"a">>)]>>
    /\ file.data = <<[key |-> <<"a">>, val |-> GoodTenant(<<"a">>)],
                     [key |-> <<"b">>, val |-> GoodTenant(<<"b">>)]>>

\* the file keyed "a_", "b", "A" has loaded as "a", "b", the record of "A"
\* under "a"
LoadedCollision ==
    /\ Returned("load_tenants") /\ ret.ok
    /\ Keys(file.data) = << <<"a","_">>, <<"b">>, <<"A">> >>
    /\ file.data[1].val # GoodTenant(<<"a","_">>)
    /\ file.data[3].val = GoodTenant(<<"A">>)
    /\ ret.out = <<[key |-> <<"a">>, val |-> GoodTenant(<<"a">>)],
                   [key |-> <<"b">>, val |-> file.data[2].val]>>

====
